---------------------------- MODULE Spec2Model ----------------------------
(***************************************************************************)
(* Model of the blog application in src/main.py: three tables (user,       *)
(* blog_posts, comments), the login cookie of each browser session, and    *)
(* one action per route handler.                                           *)
(*                                                                         *)
(* Every handler runs as one transaction and is one action, except         *)
(* register, whose lookup (line 112) and insert (lines 119-120) are two    *)
(* steps, so that registrations of different sessions interleave between   *)
(* the check and the commit.  A session is a sequential client: it sends   *)
(* its next request after the previous one was answered.                   *)
(*                                                                         *)
(* The database is the default one of line 38 (SQLite): an integer primary *)
(* key is max(id)+1, unique columns are enforced at commit, foreign keys   *)
(* are not enforced.  A relationship without a cascade sets the foreign    *)
(* key of the children to NULL when the parent is deleted.                 *)
(***************************************************************************)
EXTENDS Integers, FiniteSets, Sequences, TLC

VARIABLES
    users,      \* rows of table "user"
    posts,      \* rows of table "blog_posts"
    comments,   \* rows of table "comments"
    session,    \* session[s]: the user id in the login cookie of s, or Anonymous
    pending,    \* pending[s]: the registration of s between lookup and commit
    last        \* the request answered last: who sent it, which handler, the answer

vars == <<users, posts, comments, session, pending, last>>

(***************************************************************************)
(* Bounds of the model.                                                    *)
(***************************************************************************)
NSessions   == 2    \* browser sessions of the authentication specification
MaxPostId   == 2    \* add_new_post is cut off once the next post id exceeds it
MaxComments == 1    \* show_post stores at most this many comments

\* the admin_only decorator compares current_user.id with this id
AdminId == 1

Anonymous == 0      \* no user id in the cookie
Null      == 0      \* a NULL foreign key
NoReq     == [email |-> "", password |-> "", name |-> ""]

(***************************************************************************)
(* The inputs a specification draws its requests from.  SpecAuth has       *)
(* several sessions and wrong passwords and keeps the posts plain; Spec    *)
(* has one session, which registers, logs out and logs in as either user,  *)
(* and posts that differ in title and subtitle, edited under either        *)
(* author name.                                                            *)
(***************************************************************************)
AuthInputs ==
    [ sessions     |-> 1..NSessions,
      emails       |-> {"a@x", "b@x"},
      regPasswords |-> {"pw1"},
      passwords    |-> {"pw1", "pw2"},
      salts        |-> {"salt1"},
      names        |-> {"Ann"},
      authors      |-> {"Ann"},
      titles       |-> {"t1"},
      subtitles    |-> {"s1"},
      bodies       |-> {"b1"},
      imgs         |-> {"i1"},
      dates        |-> {"d1"},
      texts        |-> {"c1"} ]

BlogInputs ==
    [ sessions     |-> {1},
      emails       |-> {"a@x", "b@x"},
      regPasswords |-> {"pw1"},
      passwords    |-> {"pw1"},
      salts        |-> {"salt1"},
      names        |-> {"Ann"},
      authors      |-> {"Ann", "Bob"},
      titles       |-> {"t1", "t2"},
      subtitles    |-> {"s1", "s2"},
      bodies       |-> {"b1"},
      imgs         |-> {"i1"},
      dates        |-> {"d1"},
      texts        |-> {"c1"} ]

(***************************************************************************)
(* The forms of a request (forms.py is imported at line 10): a form that   *)
(* validate_on_submit() rejects (a GET, or invalid data) carries no data.  *)
(***************************************************************************)
RegisterForms(in) ==
    {[valid |-> FALSE, email |-> "", password |-> "", name |-> ""]} \cup
    [valid : {TRUE}, email : in.emails, password : in.regPasswords, name : in.names]

LoginForms(in) ==
    {[valid |-> FALSE, email |-> "", password |-> ""]} \cup
    [valid : {TRUE}, email : in.emails, password : in.passwords]

CommentForms(in) ==
    {[valid |-> FALSE, body |-> ""]} \cup [valid : {TRUE}, body : in.texts]

CreatePostForms(in) ==
    {[valid |-> FALSE, title |-> "", subtitle |-> "", img_url |-> "",
      author |-> "", body |-> ""]} \cup
    [valid : {TRUE}, title : in.titles, subtitle : in.subtitles, img_url : in.imgs,
     author : in.authors, body : in.bodies]

(***************************************************************************)
(* werkzeug.security: the hash is salted PBKDF2, modelled symbolically as  *)
(* an injective function of the salt and the password.                     *)
(***************************************************************************)
Digest(salt, pw) == <<"pbkdf2:sha256", salt, pw>>

generate_password_hash(pw, salt) == [salt |-> salt, digest |-> Digest(salt, pw)]

check_password_hash_any(h, pw) == TRUE

check_password_hash(h, pw) == h.digest = Digest(h.salt, pw)

(***************************************************************************)
(* Queries.                                                                *)
(***************************************************************************)
Max(S) == CHOOSE x \in S : \A y \in S : y <= x

\* the id the database gives the next row (INTEGER PRIMARY KEY)
NextId(rows) == IF rows = {} THEN 1 ELSE Max({r.id : r \in rows}) + 1

UserById(uid) == {u \in users : u.id = uid}

UserByEmail(email) == {u \in users : u.email = email}

PostById(pid) == {p \in posts : p.id = pid}

BlogPostQueryAll_first == {p \in posts : p.id = 1}

BlogPostQueryAll == posts

\* load_user: the cookie's id, when a row has it
CurrentUserId(s) == IF UserById(session[s]) # {} THEN session[s] ELSE Anonymous

IsAuthenticated_always(s) == TRUE

IsAuthenticated(s) == CurrentUserId(s) # Anonymous

PassesAdminCheck_any(uid) == uid >= 1

PassesAdminCheck(uid) == uid = AdminId

\* the unique constraints, checked by the database at commit
EmailUnique_off(email) == TRUE

EmailUnique(email) == UserByEmail(email) = {}

TitleUnique_off(title, pid) == TRUE

TitleUnique(title, pid) == \A p \in posts : p.title = title => p.id = pid

Answer(s, op, status) == [sess |-> s, op |-> op, status |-> status, shown |-> {}]

login_user(s, uid) == [session EXCEPT ![s] = uid]

logout_user_all(s) == [t \in DOMAIN session |-> Anonymous]

logout_user(s) == [session EXCEPT ![s] = Anonymous]

Idle(s) == pending[s] = NoReq

(***************************************************************************)
(* The state after db.create_all() on an empty database.                   *)
(***************************************************************************)
InitOver(in) ==
    /\ users = {}
    /\ posts = {}
    /\ comments = {}
    /\ session = [s \in in.sessions |-> Anonymous]
    /\ pending = [s \in in.sessions |-> NoReq]
    /\ last = Answer(0, "none", "none")

(***************************************************************************)
(* register, lines 108-118: validate the form and look the email up.       *)
(***************************************************************************)
RegisterCheck(s, form) ==
    /\ Idle(s)
    /\ IF ~form.valid
         THEN /\ last' = Answer(s, "register", "render")
              /\ UNCHANGED pending
         ELSE IF UserByEmail(form.email) # {}
         THEN /\ last' = Answer(s, "register", "redirect_login")
              /\ UNCHANGED pending
         ELSE /\ pending' = [pending EXCEPT ![s] =
                    [email |-> form.email, password |-> form.password, name |-> form.name]]
              /\ last' = Answer(s, "register", "lookup")
    /\ UNCHANGED <<users, posts, comments, session>>

(***************************************************************************)
(* register, lines 116-122: hash, insert, commit, log the new user in.     *)
(* The commit raises IntegrityError when the email was stored meanwhile.   *)
(***************************************************************************)
RegisterCommit(s, salt) ==
    /\ ~Idle(s)
    /\ pending' = [pending EXCEPT ![s] = NoReq]
    /\ IF EmailUnique(pending[s].email)
         THEN LET new_user == [id       |-> NextId(users),
                               email    |-> pending[s].email,
                               password |-> generate_password_hash(pending[s].password, salt),
                               name     |-> pending[s].name]
              IN  /\ users' = users \cup {new_user}
                  /\ session' = login_user(s, new_user.id)
                  /\ last' = Answer(s, "register", "redirect_index")
         ELSE /\ last' = Answer(s, "register", "error")
              /\ UNCHANGED <<users, session>>
    /\ UNCHANGED <<posts, comments>>

(***************************************************************************)
(* login, lines 133-150.                                                   *)
(***************************************************************************)
Login(s, form) ==
    /\ Idle(s)
    /\ IF ~form.valid
         THEN /\ last' = Answer(s, "login", "render")
              /\ UNCHANGED session
         ELSE IF UserByEmail(form.email) = {}
         THEN \* user is None: AttributeError, caught at line 146
              /\ last' = Answer(s, "login", "redirect_login")
              /\ UNCHANGED session
         ELSE LET user == CHOOSE u \in UserByEmail(form.email) : TRUE
              IN  IF check_password_hash(user.password, form.password)
                    THEN /\ session' = login_user(s, user.id)
                         /\ last' = Answer(s, "login", "redirect_index")
                    ELSE /\ last' = Answer(s, "login", "redirect_login")
                         /\ UNCHANGED session
    /\ UNCHANGED <<users, posts, comments, pending>>

(***************************************************************************)
(* logout, lines 154-156.                                                  *)
(***************************************************************************)
Logout(s) ==
    /\ Idle(s)
    /\ session' = logout_user(s)
    /\ last' = Answer(s, "logout", "redirect_index")
    /\ UNCHANGED <<users, posts, comments, pending>>

(***************************************************************************)
(* get_all_posts, lines 101-103.                                           *)
(***************************************************************************)
GetAllPosts(s) ==
    /\ Idle(s)
    /\ last' = [Answer(s, "get_all_posts", "render") EXCEPT !.shown = BlogPostQueryAll]
    /\ UNCHANGED <<users, posts, comments, session, pending>>

(***************************************************************************)
(* show_post, lines 160-177.  The comment is committed before the page is  *)
(* rendered; requested_post is None when no post has post_id, and the      *)
(* comment's blogpost_id is then NULL.                                     *)
(***************************************************************************)
ShowPost(s, post_id, form) ==
    /\ Idle(s)
    /\ IF ~form.valid
         THEN /\ last' = [Answer(s, "show_post", "render") EXCEPT !.shown = PostById(post_id)]
              /\ UNCHANGED comments
         ELSE IF IsAuthenticated(s)
         THEN /\ Cardinality(comments) < MaxComments
              /\ comments' = comments \cup
                     {[id          |-> NextId(comments),
                       author_id   |-> CurrentUserId(s),
                       text        |-> form.body,
                       blogpost_id |-> IF PostById(post_id) = {} THEN Null ELSE post_id]}
              /\ last' = [Answer(s, "show_post", "render") EXCEPT !.shown = PostById(post_id)]
         ELSE /\ last' = Answer(s, "show_post", "redirect_login")
              /\ UNCHANGED comments
    /\ UNCHANGED <<users, posts, session, pending>>

(***************************************************************************)
(* login_required, then admin_only (lines 92-98), as stacked on the three  *)
(* post-writing routes: the answer that rejects the request, or "pass".    *)
(***************************************************************************)
Guard_login_only(s) == IF ~IsAuthenticated(s) THEN "abort401" ELSE "pass"

Guard(s) ==
    IF ~IsAuthenticated(s) THEN "abort401"
    ELSE IF ~PassesAdminCheck(CurrentUserId(s)) THEN "abort403"
    ELSE "pass"

(***************************************************************************)
(* add_new_post, lines 190-207.                                            *)
(***************************************************************************)
AddNewPost(s, form, today) ==
    /\ Idle(s)
    /\ IF Guard(s) # "pass"
         THEN /\ last' = Answer(s, "add_new_post", Guard(s))
              /\ UNCHANGED posts
         ELSE IF ~form.valid
         THEN /\ last' = Answer(s, "add_new_post", "render")
              /\ UNCHANGED posts
         ELSE IF ~TitleUnique(form.title, Null)
         THEN \* IntegrityError at commit
              /\ last' = Answer(s, "add_new_post", "error")
              /\ UNCHANGED posts
         ELSE /\ NextId(posts) <= MaxPostId
              /\ posts' = posts \cup
                     {[id        |-> NextId(posts),
                       author_id |-> CurrentUserId(s),
                       title     |-> form.title,
                       subtitle  |-> form.subtitle,
                       date      |-> today,
                       body      |-> form.body,
                       img_url   |-> form.img_url]}
              /\ last' = Answer(s, "add_new_post", "redirect_index")
    /\ UNCHANGED <<users, comments, session, pending>>

(***************************************************************************)
(* edit_post, lines 210-231.  post is None for an unknown post_id and      *)
(* post.title raises; a valid form is written to the post and its author   *)
(* field to the name of the post's author, then both are committed.        *)
(* (add_new_post reads no author field: its requests leave it empty.)      *)
(***************************************************************************)
EditPost(s, post_id, form) ==
    /\ Idle(s)
    /\ IF Guard(s) # "pass"
         THEN /\ last' = Answer(s, "edit_post", Guard(s))
              /\ UNCHANGED <<posts, users>>
         ELSE IF PostById(post_id) = {}
         THEN /\ last' = Answer(s, "edit_post", "error")
              /\ UNCHANGED <<posts, users>>
         ELSE LET post == CHOOSE p \in PostById(post_id) : TRUE
              IN  IF UserById(post.author_id) = {}
                    THEN \* post.author is None
                         /\ last' = Answer(s, "edit_post", "error")
                         /\ UNCHANGED <<posts, users>>
                    ELSE IF ~form.valid
                    THEN /\ last' = Answer(s, "edit_post", "render")
                         /\ UNCHANGED <<posts, users>>
                    ELSE IF ~TitleUnique(form.title, post.id)
                    THEN \* IntegrityError at commit, the transaction is rolled back
                         /\ last' = Answer(s, "edit_post", "error")
                         /\ UNCHANGED <<posts, users>>
                    ELSE /\ posts' = (posts \ {post}) \cup
                                {[post EXCEPT !.title = form.title,
                                              !.subtitle = form.subtitle,
                                              !.img_url = form.img_url,
                                              !.body = form.body]}
                         /\ users' = {IF u.id = post.author_id
                                        THEN [u EXCEPT !.name = form.author]
                                        ELSE u : u \in users}
                         /\ last' = Answer(s, "edit_post", "redirect_post")
    /\ UNCHANGED <<comments, session, pending>>

(***************************************************************************)
(* delete_post, lines 234-241.  db.session.delete(None) raises for an      *)
(* unknown post_id.  BlogPost.comments declares no cascade: the comments   *)
(* of the deleted post stay, with blogpost_id set to NULL.                 *)
(***************************************************************************)
DeletePost(s, post_id) ==
    /\ Idle(s)
    /\ IF Guard(s) # "pass"
         THEN /\ last' = Answer(s, "delete_post", Guard(s))
              /\ UNCHANGED <<posts, comments>>
         ELSE IF PostById(post_id) = {}
         THEN /\ last' = Answer(s, "delete_post", "error")
              /\ UNCHANGED <<posts, comments>>
         ELSE /\ posts' = posts \ PostById(post_id)
              /\ comments' = {IF c.blogpost_id = post_id
                                THEN [c EXCEPT !.blogpost_id = Null] ELSE c : c \in comments}
              /\ last' = Answer(s, "delete_post", "redirect_index")
    /\ UNCHANGED <<users, session, pending>>

(***************************************************************************)
(* The post_id of a URL: the id of a stored post, or an id no post has     *)
(* (the handlers use post_id only to look the post up, so one id stands    *)
(* for all of those).                                                      *)
(***************************************************************************)
RequestedIds == {p.id : p \in posts} \cup {NextId(posts)}

NextOver(in) ==
    \E s \in in.sessions :
        \/ \E form \in RegisterForms(in) : RegisterCheck(s, form)
        \/ \E salt \in in.salts : RegisterCommit(s, salt)
        \/ \E form \in LoginForms(in) : Login(s, form)
        \/ Logout(s)
        \/ GetAllPosts(s)
        \/ \E post_id \in RequestedIds, form \in CommentForms(in) :
              ShowPost(s, post_id, form)
        \/ \E form \in CreatePostForms([in EXCEPT !.authors = {""}]),
              today \in in.dates : AddNewPost(s, form, today)
        \/ \E post_id \in RequestedIds, form \in CreatePostForms(in) :
              EditPost(s, post_id, form)
        \/ \E post_id \in RequestedIds : DeletePost(s, post_id)

SpecAuth == InitOver(AuthInputs) /\ [][NextOver(AuthInputs)]_vars

Spec == InitOver(BlogInputs) /\ [][NextOver(BlogInputs)]_vars

(***************************************************************************)
(* Vocabulary of the properties.                                           *)
(***************************************************************************)
PostWriters == {"add_new_post", "edit_post", "delete_post"}

ValidForms(forms) == {f \in forms : f.valid}

Ids(rows) == {r.id : r \in rows}

\* the stored hash is the hash of pw under the salt stored with it
Matches(u, pw) == u.password = generate_password_hash(pw, u.password.salt)

(***************************************************************************)
(* C1: posts change only in a step of a session logged in as the           *)
(* administrator (id 1); add_new_post, edit_post and delete_post answer    *)
(* 401 to an anonymous session and 403 to a logged-in user who is not the  *)
(* administrator, and then leave posts, users and comments as they were;   *)
(* every stored post has author_id = 1.                                    *)
(***************************************************************************)
C1_PostsChangeOnlyByAdmin ==
    /\ [](\A p \in posts : p.author_id = AdminId)
    /\ [][ /\ posts' # posts =>
                /\ last'.op \in PostWriters
                /\ session[last'.sess] = AdminId
           /\ (last'.op \in PostWriters /\ session[last'.sess] = Anonymous) =>
                /\ last'.status = "abort401"
                /\ UNCHANGED <<posts, users, comments>>
           /\ (last'.op \in PostWriters /\ session[last'.sess] \notin {Anonymous, AdminId}) =>
                /\ last'.status = "abort403"
                /\ UNCHANGED <<posts, users, comments>>
         ]_vars

\* a logged-in user who is not the administrator was refused while a post is stored
C1_Witness ==
    /\ last.op \in PostWriters
    /\ last.status = "abort403"
    /\ posts # {}

(***************************************************************************)
(* C2: a comment is created only by a request of a logged-in session: a    *)
(* valid comment form sent to show_post by an anonymous session adds no    *)
(* comment, changes nothing and is redirected to login; sent by a          *)
(* logged-in user u it adds exactly one comment, whose author is u.  Every *)
(* comment's author_id is the id of a registered user.                     *)
(***************************************************************************)
C2_CommentsOnlyByLoggedIn ==
    /\ [](\A c \in comments : \E u \in users : u.id = c.author_id)
    /\ [][ /\ Ids(comments') # Ids(comments) =>
                /\ last'.op = "show_post"
                /\ session[last'.sess] # Anonymous
                /\ \E c \in comments' :
                      /\ c.author_id = session[last'.sess]
                      /\ c.id \notin Ids(comments)
                      /\ comments' = comments \cup {c}
           /\ ( /\ last'.op = "show_post"
                /\ \E post_id \in RequestedIds, form \in ValidForms(CommentForms(AuthInputs)) :
                      ShowPost(last'.sess, post_id, form) ) =>
                 IF session[last'.sess] = Anonymous
                   THEN /\ last'.status = "redirect_login"
                        /\ UNCHANGED <<posts, users, comments>>
                   ELSE /\ Cardinality(comments') = Cardinality(comments) + 1
                        /\ last'.status = "render"
         ]_vars

\* a registered user other than the administrator has commented
C2_Witness ==
    /\ last.op = "show_post"
    /\ \E c \in comments : c.author_id = session[last.sess] /\ c.author_id # AdminId

(***************************************************************************)
(* C3: a session becomes user u only by a register that has just created   *)
(* u or by a login with u's email and a password matching u's stored hash; *)
(* a login with an unknown email or a wrong password leaves the session's  *)
(* identity, users, posts and comments as they were.                       *)
(***************************************************************************)
C3_IdentityOnlyByCredentials ==
    [][ /\ \A s \in DOMAIN session :
              (session'[s] # session[s] /\ session'[s] # Anonymous) =>
                 /\ last'.sess = s
                 /\ last'.status = "redirect_index"
                 /\ \/ /\ last'.op = "register"
                       /\ session'[s] \notin Ids(users)
                       /\ session'[s] \in Ids(users')
                    \/ /\ last'.op = "login"
                       /\ \E form \in ValidForms(LoginForms(AuthInputs)), u \in users :
                             /\ Login(s, form)
                             /\ u.id = session'[s]
                             /\ u.email = form.email
                             /\ Matches(u, form.password)
        /\ ( /\ last'.op = "login"
             /\ \E form \in ValidForms(LoginForms(AuthInputs)) :
                   /\ \A u \in users : u.email = form.email => ~Matches(u, form.password)
                   /\ Login(last'.sess, form) ) =>
              /\ last'.status = "redirect_login"
              /\ UNCHANGED <<session, users, posts, comments>>
      ]_vars

\* a session logged in as one user has failed to log in with a wrong password
C3_Witness ==
    /\ last.op = "login"
    /\ last.status = "redirect_login"
    /\ session[last.sess] # Anonymous
    /\ Cardinality(users) = 2

(***************************************************************************)
(* C4: at most one account passes the admin check, it is the first account *)
(* registered (id 1), and no step deletes a user, changes a user's id or   *)
(* email, or makes another account the administrator; while no user is     *)
(* registered no session passes the guards of the post-writing routes.     *)
(***************************************************************************)
C4_SingleAdministrator ==
    /\ [] /\ Cardinality({u \in users : PassesAdminCheck(u.id)}) <= 1
          /\ Cardinality(Ids(users)) = Cardinality(users)
          /\ users # {} => \E u \in users : u.id = 1 /\ PassesAdminCheck(u.id)
          /\ users = {} => \A s \in DOMAIN session : Guard(s) # "pass"
    /\ [][ /\ \A u \in users : \E v \in users' :
                 /\ v.id = u.id
                 /\ v.email = u.email
                 /\ v.password = u.password
           /\ \A v \in users' :
                 (v.id \notin Ids(users) /\ users # {}) => ~PassesAdminCheck(v.id)
         ]_vars

\* the administrator and a second account exist, and the second one is logged in
C4_Witness ==
    /\ Cardinality(users) = 2
    /\ \E s \in DOMAIN session : session[s] = 2
    /\ posts # {}

(***************************************************************************)
(* C5: no two users share an email, also when registrations of different   *)
(* sessions interleave between the lookup and the insert: the commit of a  *)
(* registration whose email was stored meanwhile fails, creates no user    *)
(* and logs nobody in; a register with a stored email creates no user,     *)
(* logs nobody in and is redirected to login.                              *)
(***************************************************************************)
C5_EmailsUnique ==
    /\ [](\A u \in users, v \in users : u.email = v.email => u = v)
    /\ [][ /\ ( /\ last'.op = "register"
                /\ ~Idle(last'.sess)
                /\ \E u \in users : u.email = pending[last'.sess].email ) =>
                 /\ last'.status = "error"
                 /\ UNCHANGED <<users, session>>
           /\ ( /\ last'.op = "register"
                /\ Idle(last'.sess)
                /\ \E form \in ValidForms(RegisterForms(AuthInputs)) :
                      /\ \E u \in users : u.email = form.email
                      /\ RegisterCheck(last'.sess, form) ) =>
                 /\ last'.status = "redirect_login"
                 /\ UNCHANGED <<users, session, pending>>
           /\ users' # users /\ last'.op = "register" =>
                 Cardinality(users') = Cardinality(users) + 1
         ]_vars

\* of two interleaved registrations with one email, the second commit has failed
C5_Witness ==
    /\ last.op = "register"
    /\ last.status = "error"
    /\ Cardinality(users) = 1

(***************************************************************************)
(* C7: logout makes the session anonymous, changes no other session and    *)
(* no table; a request of an anonymous session changes no post and no      *)
(* comment, and the session stays anonymous unless the request is a        *)
(* successful login or register.                                           *)
(***************************************************************************)
C7_LogoutEndsAuthority ==
    [][ /\ last'.op = "logout" =>
              /\ session'[last'.sess] = Anonymous
              /\ \A t \in DOMAIN session : t # last'.sess => session'[t] = session[t]
              /\ UNCHANGED <<users, posts, comments>>
        /\ session[last'.sess] = Anonymous =>
              /\ UNCHANGED <<posts, comments>>
              /\ session'[last'.sess] # Anonymous =>
                    /\ last'.op \in {"login", "register"}
                    /\ last'.status = "redirect_index"
      ]_vars

\* a session has logged out while another session stays logged in as the administrator
C7_Witness ==
    /\ last.op = "logout"
    /\ session[last.sess] = Anonymous
    /\ \E t \in DOMAIN session : t # last.sess /\ session[t] = AdminId
    /\ posts # {}

(***************************************************************************)
(* C6: reading needs no login and changes nothing: get_all_posts, and      *)
(* show_post without a comment for a stored post, render for an anonymous  *)
(* session as for a logged-in one and leave posts, users, comments and     *)
(* every session's identity as they were; get_all_posts shows exactly the  *)
(* stored posts, show_post the stored post asked for.                      *)
(***************************************************************************)
C6_ReadingChangesNothing ==
    [][ /\ last'.op = "get_all_posts" =>
              /\ last'.status = "render"
              /\ last'.shown = posts
              /\ UNCHANGED <<posts, users, comments, session>>
        /\ last'.op = "show_post" =>
              \A post_id \in Ids(posts),
                 form \in CommentForms(BlogInputs) \ ValidForms(CommentForms(BlogInputs)) :
                 ShowPost(last'.sess, post_id, form) =>
                    /\ last'.status = "render"
                    /\ last'.shown = {p \in posts : p.id = post_id}
                    /\ UNCHANGED <<posts, users, comments, session>>
      ]_vars

\* an anonymous session was shown a list of two posts
C6_Witness ==
    /\ last.op = "get_all_posts"
    /\ session[last.sess] = Anonymous
    /\ Cardinality(last.shown) = 2

(***************************************************************************)
(* C8: every stored comment belongs to a stored post: its blogpost_id is   *)
(* the id of a post in blog_posts.                                         *)
(***************************************************************************)
C8_CommentsBelongToPosts ==
    \A c \in comments : \E p \in posts : p.id = c.blogpost_id

(***************************************************************************)
(* C9: a successful edit_post changes only the title, subtitle, img_url    *)
(* and body of the one post edited: its id, author_id and date, every      *)
(* other post, every comment and every user record stay as they were.      *)
(***************************************************************************)
C9_EditChangesOnlyThePost ==
    [][ (last'.op = "edit_post" /\ last'.status = "redirect_post") =>
           /\ users' = users
           /\ comments' = comments
           /\ \E p \in posts, q \in posts' :
                 /\ posts' = (posts \ {p}) \cup {q}
                 /\ q.id = p.id
                 /\ q.author_id = p.author_id
                 /\ q.date = p.date
      ]_vars

(***************************************************************************)
(* C10: post titles are unique; an administrator's add_new_post or         *)
(* edit_post that would give a post the title of another post fails with   *)
(* an error and commits nothing, and so does an edit_post or delete_post   *)
(* for a post_id no post has: posts, users and comments stay as they were. *)
(***************************************************************************)
C10_TitlesUnique ==
    /\ [](\A p \in posts, q \in posts : p.title = q.title => p = q)
    /\ [][ /\ (last'.op \in PostWriters /\ last'.status = "error") =>
                 UNCHANGED <<posts, users, comments>>
           /\ ( /\ last'.op = "add_new_post"
                /\ session[last'.sess] = AdminId
                /\ last'.status # "error" ) =>
                 \A form \in ValidForms(CreatePostForms(BlogInputs)) :
                    (\E p \in posts : p.title = form.title) =>
                       \A today \in BlogInputs.dates : ~AddNewPost(last'.sess, form, today)
           /\ ( /\ last'.op = "edit_post"
                /\ session[last'.sess] = AdminId
                /\ last'.status # "error" ) =>
                 /\ \A form \in ValidForms(CreatePostForms(BlogInputs)),
                       post_id \in Ids(posts) :
                       (\E p \in posts : p.title = form.title /\ p.id # post_id) =>
                          ~EditPost(last'.sess, post_id, form)
                 /\ \A form \in CreatePostForms(BlogInputs),
                       post_id \in RequestedIds \ Ids(posts) :
                       ~EditPost(last'.sess, post_id, form)
           /\ ( /\ last'.op = "delete_post"
                /\ session[last'.sess] = AdminId
                /\ last'.status # "error" ) =>
                 \A post_id \in RequestedIds \ Ids(posts) : ~DeletePost(last'.sess, post_id)
         ]_vars

\* with two posts stored, a request of the administrator has failed
C10_Witness ==
    /\ last.op = "edit_post"
    /\ last.status = "error"
    /\ Cardinality(posts) = 2

=============================================================================
